---------------------------- MODULE Spec2Model ----------------------------
(***************************************************************************)
(* pc.CurveIterator (src/src/math/curve-iterator.js): a stateful evaluator *)
(* of a keyed scalar curve that caches the knot span the current time lies *)
(* in.                                                                     *)
(*                                                                         *)
(* JavaScript numbers are modelled as exact extended rationals: a finite   *)
(* number is a reduced fraction n/d with d > 0, +Infinity is 1/0,          *)
(* -Infinity is -1/0 and NaN is 0/0, with the IEEE-754 rules for the       *)
(* non-finite operands.  Rounding of finite results and the sign of zero   *)
(* are not modelled.                                                       *)
(***************************************************************************)
EXTENDS Integers, Sequences, FiniteSets

VARIABLES
    curve,      \* this.curve: [keys, type, tension]; no call assigns it
    it,         \* the fields time_, left, right, recip, p0, p1, m0, m1
    result,     \* what the last call returned or threw
    lastCall,   \* the last call: new, reset, advance, value, evaluate, time
                \* (reset2, ... when made on the second iterator)
    it2,        \* the fields of a second iterator on the same curve
    result2     \* what value() on the second iterator returned when the
                \* two iterators are stepped together

vars == <<curve, it, result, lastCall, it2, result2>>

---------------------------------------------------------------------------
(* Bounds of the model *)

\* a curve has 0..MaxKeys keys
MaxKeys == 3
\* advance amounts are the integers -MaxStep..MaxStep
MaxStep == 2

---------------------------------------------------------------------------
(* JavaScript numbers *)

Abs(x) == IF x < 0 THEN -x ELSE x

Sgn(x) == IF x > 0 THEN 1 ELSE IF x < 0 THEN -1 ELSE 0

RECURSIVE GCD(_, _)
GCD(a, b) == IF b = 0 THEN a ELSE GCD(b, a % b)

Num(n, d) ==
    IF d = 1 THEN [n |-> n, d |-> 1]
    ELSE IF d = 0 THEN [n |-> Sgn(n), d |-> 0]
    ELSE LET g == GCD(Abs(n), Abs(d))
         IN  [n |-> Sgn(d) * Sgn(n) * (Abs(n) \div g), d |-> Abs(d) \div g]

Whole(i) == [n |-> i, d |-> 1]
Zero == Whole(0)
One == Whole(1)
Half == [n |-> 1, d |-> 2]
Infinity == [n |-> 1, d |-> 0]
NegInfinity == [n |-> -1, d |-> 0]
NaN == [n |-> 0, d |-> 0]

isFinite(x) == x.d # 0
isNaN(x) == x.d = 0 /\ x.n = 0

Neg(a) == [n |-> -a.n, d |-> a.d]

Add(a, b) ==
    IF isFinite(a) /\ isFinite(b) THEN Num(a.n * b.d + b.n * a.d, a.d * b.d)
    ELSE IF isNaN(a) \/ isNaN(b) THEN NaN
    ELSE IF isFinite(a) THEN b
    ELSE IF isFinite(b) THEN a
    ELSE IF a.n = b.n THEN a ELSE NaN

Sub(a, b) == Add(a, Neg(b))

Mul(a, b) ==
    IF isFinite(a) /\ isFinite(b) THEN Num(a.n * b.n, a.d * b.d)
    ELSE IF isNaN(a) \/ isNaN(b) THEN NaN
    ELSE IF a.n = 0 \/ b.n = 0 THEN NaN
    ELSE [n |-> Sgn(a.n) * Sgn(b.n), d |-> 0]

Div(a, b) ==
    IF isNaN(a) \/ isNaN(b) THEN NaN
    ELSE IF isFinite(a) /\ isFinite(b)
         THEN IF b.n = 0 THEN [n |-> Sgn(a.n), d |-> 0]
              ELSE Num(a.n * b.d, a.d * b.n)
    ELSE IF ~isFinite(a) /\ ~isFinite(b) THEN NaN
    ELSE IF isFinite(a) THEN Zero
    ELSE [n |-> a.n * (IF b.n < 0 THEN -1 ELSE 1), d |-> 0]

Lt(a, b) ==
    /\ ~isNaN(a)
    /\ ~isNaN(b)
    /\ IF ~isFinite(a) /\ ~isFinite(b) THEN a.n < b.n
       ELSE a.n * b.d < b.n * a.d

Gt(a, b) == Lt(b, a)

Ge(a, b) == ~isNaN(a) /\ ~isNaN(b) /\ ~Lt(a, b)

\* a === b
StrictEq(a, b) == ~isNaN(a) /\ ~isNaN(b) /\ a = b

---------------------------------------------------------------------------
(* JavaScript values returned by a call: a number, undefined, or a thrown   *)
(* TypeError                                                               *)

Returned(x) == [tag |-> "number", num |-> x]
Undefined == [tag |-> "undefined", num |-> Zero]
TypeError == [tag |-> "TypeError", num |-> Zero]

---------------------------------------------------------------------------
(* The curve: keys (a list of <<time, value>>), type and tension *)

CURVE_TYPES == {"CURVE_STEP", "CURVE_LINEAR", "CURVE_SMOOTHSTEP",
                "CURVE_CATMULL", "CURVE_CARDINAL", "CURVE_CARDINAL_STABLE"}

\* keys[i] with i counted from 0 as in the source; [0] is the time, [1] the value
Key(keys, i) == keys[i + 1]
T(k) == k[1]
V(k) == k[2]

---------------------------------------------------------------------------
(* CurveIterator: the fields of one iterator are the record                 *)
(* [time_, left, right, recip, p0, p1, m0, m1]                              *)

\* the methods Object.assign puts on CurveIterator.prototype; calling any
\* other property of the iterator calls undefined and throws a TypeError
PrototypeMethods == {"reset", "_isHermite", "_calcTangents", "_evaluateHermite",
                     "time", "evaluate", "advance", "value"}

\* time || 0
orZero(time) ==
    IF time.tag = "undefined" \/ isNaN(time.num) \/ time.num = Zero
    THEN Zero ELSE time.num

_isHermite(c) ==
    c.type \in {"CURVE_CATMULL", "CURVE_CARDINAL", "CURVE_CARDINAL_STABLE"}

\* the guard isFinite(x) ? x : 0
finiteOrZero(x) == IF isFinite(x) THEN x ELSE Zero

\* the left neighbour a of the span keys[index], keys[index + 1]
tangentA(keys, index) ==
    IF index = 0
    THEN <<Add(T(Key(keys, 0)), Sub(T(Key(keys, 0)), T(Key(keys, 1)))),
           Add(V(Key(keys, 0)), Sub(V(Key(keys, 0)), V(Key(keys, 1))))>>
    ELSE Key(keys, index - 1)

\* the right neighbour d of the span
tangentD(keys, index) ==
    IF index = Len(keys) - 2
    THEN <<Add(T(Key(keys, index + 1)),
               Sub(T(Key(keys, index + 1)), T(Key(keys, index)))),
           Add(V(Key(keys, index + 1)),
               Sub(V(Key(keys, index + 1)), V(Key(keys, index))))>>
    ELSE Key(keys, index + 2)

\* the CURVE_CARDINAL_STABLE branch
stableTangents(self, c, a, b, cc, d) ==
    LET s1_ == Div(Mul(Whole(2), Sub(T(cc), T(b))), Sub(T(cc), T(a)))
        s2_ == Div(Mul(Whole(2), Sub(T(cc), T(b))), Sub(T(d), T(b)))
    IN  [self EXCEPT
            !.m0 = Mul(Mul(c.tension, finiteOrZero(s1_)), Sub(V(cc), V(a))),
            !.m1 = Mul(Mul(c.tension, finiteOrZero(s2_)), Sub(V(d), V(b)))]

\* the original tangent scale calc (CURVE_CATMULL, CURVE_CARDINAL)
originalTangents(self, c, a, b, cc, d) ==
    LET s1 == Div(Sub(T(cc), T(b)), Sub(T(b), T(a)))
        s2 == Div(Sub(T(cc), T(b)), Sub(T(d), T(cc)))
        a_ == Add(V(b), Mul(Sub(V(a), V(b)), finiteOrZero(s1)))
        d_ == Add(V(cc), Mul(Sub(V(d), V(cc)), finiteOrZero(s2)))
        tension == IF c.type = "CURVE_CATMULL" THEN Half ELSE c.tension
    IN  [self EXCEPT !.m0 = Mul(tension, Sub(V(cc), a_)),
                     !.m1 = Mul(tension, Sub(d_, V(b)))]

_calcTangents(self, c, keys, index) ==
    LET a == tangentA(keys, index)
        b == Key(keys, index)
        cc == Key(keys, index + 1)
        d == tangentD(keys, index)
    IN  IF c.type = "CURVE_CARDINAL_STABLE"
        THEN stableTangents(self, c, a, b, cc, d)
        ELSE originalTangents(self, c, a, b, cc, d)

\* curve is empty
resetEmpty(self) ==
    [self EXCEPT !.left = NegInfinity, !.right = Infinity, !.recip = Zero,
                 !.p0 = Zero, !.p1 = Zero, !.m0 = Zero, !.m1 = Zero]

\* resetLeftOfStart without the assignment this.recip = 0
resetLeftOfStart_recipKept(self, keys) ==
    [self EXCEPT !.left = NegInfinity, !.right = T(Key(keys, 0)),
                 !.p0 = V(Key(keys, 0)), !.p1 = V(Key(keys, 0)),
                 !.m0 = Zero, !.m1 = Zero]

\* iterator falls to the left of the start of the curve
resetLeftOfStart(self, keys) ==
    [self EXCEPT !.left = NegInfinity, !.right = T(Key(keys, 0)),
                 !.recip = Zero,
                 !.p0 = V(Key(keys, 0)), !.p1 = V(Key(keys, 0)),
                 !.m0 = Zero, !.m1 = Zero]

\* resetRightOfEnd with the tangents of the span left before kept
resetRightOfEnd_keepTangents(self, keys) ==
    LET len == Len(keys)
    IN  [self EXCEPT !.left = T(Key(keys, len - 1)), !.right = Infinity,
                     !.recip = Zero,
                     !.p0 = V(Key(keys, len - 1)), !.p1 = V(Key(keys, len - 1))]

\* iterator falls to the right of the end of the curve
resetRightOfEnd(self, keys) ==
    LET len == Len(keys)
    IN  [self EXCEPT !.left = T(Key(keys, len - 1)), !.right = Infinity,
                     !.recip = Zero,
                     !.p0 = V(Key(keys, len - 1)), !.p1 = V(Key(keys, len - 1)),
                     !.m0 = Zero, !.m1 = Zero]

\* searchIndex with the loop condition this.time_ > keys[index + 1][0]
RECURSIVE searchIndex_gt(_, _, _)
searchIndex_gt(keys, time, index) ==
    IF Gt(time, T(Key(keys, index + 1)))
    THEN searchIndex_gt(keys, time, index + 1)
    ELSE index

\* the linear search: while (this.time_ >= keys[index + 1][0]) index++
RECURSIVE searchIndex(_, _, _)
searchIndex(keys, time, index) ==
    IF Ge(time, T(Key(keys, index + 1)))
    THEN searchIndex(keys, time, index + 1)
    ELSE index

\* spanRecip with var diff = 1.0 / (right - right)
spanRecip_rightTwice(left, right) == finiteOrZero(Div(One, Sub(right, right)))

\* spanRecip with var diff = 1.0 / (left - right)
spanRecip_swapped(left, right) == finiteOrZero(Div(One, Sub(left, right)))

\* var diff = 1.0 / (right - left); recip = isFinite(diff) ? diff : 0
spanRecip(left, right) == finiteOrZero(Div(One, Sub(right, left)))

\* iterator falls within the bounds of the curve
resetWithin(self, c, keys) ==
    LET index == searchIndex(keys, self.time_, 0)
        left == T(Key(keys, index))
        right == T(Key(keys, index + 1))
        span == [self EXCEPT !.left = left, !.right = right,
                             !.recip = spanRecip(left, right),
                             !.p0 = V(Key(keys, index)),
                             !.p1 = V(Key(keys, index + 1))]
    IN  IF _isHermite(c) THEN _calcTangents(span, c, keys, index) ELSE span

\* reset that takes a time on the first key as left of the start
reset_atStart(self, c, time) ==
    LET keys == c.keys
        len == Len(keys)
        s == [self EXCEPT !.time_ = time]
    IN  IF len = 0 THEN resetEmpty(s)
        ELSE IF ~Gt(s.time_, T(Key(keys, 0))) THEN resetLeftOfStart(s, keys)
        ELSE IF Ge(s.time_, T(Key(keys, len - 1))) THEN resetRightOfEnd(s, keys)
        ELSE resetWithin(s, c, keys)

reset(self, c, time) ==
    LET keys == c.keys
        len == Len(keys)
        s == [self EXCEPT !.time_ = time]
    IN  IF len = 0 THEN resetEmpty(s)
        ELSE IF Lt(s.time_, T(Key(keys, 0))) THEN resetLeftOfStart(s, keys)
        ELSE IF Ge(s.time_, T(Key(keys, len - 1))) THEN resetRightOfEnd(s, keys)
        ELSE resetWithin(s, c, keys)

\* the fields the constructor assigns before it calls reset
newFields(time) ==
    [time_ |-> orZero(time), left |-> NegInfinity, right |-> Infinity,
     recip |-> Zero, p0 |-> Zero, p1 |-> Zero, m0 |-> Zero, m1 |-> Zero]

\* new pc.CurveIterator(curve, time)
CurveIterator(c, time) == reset(newFields(time), c, newFields(time).time_)

_evaluateHermite(p0, p1, m0, m1, t) ==
    LET t2 == Mul(t, t)
        twot == Add(t, t)
        omt == Sub(One, t)
        omt2 == Mul(omt, omt)
    IN  Add(Add(Add(Mul(p0, Mul(Add(One, twot), omt2)),
                    Mul(m0, Mul(t, omt2))),
                Mul(p1, Mul(t2, Sub(Whole(3), twot)))),
            Mul(m1, Mul(t2, Sub(t, One))))

\* pc.math.lerp is defined outside curve-iterator.js: linear interpolation
\* of a and b by alpha
lerp(a, b, alpha) == Add(a, Mul(Sub(b, a), alpha))

\* normalizedT measured from time 0 instead of from the left of the span
normalizedT_noLeft(self) ==
    IF StrictEq(self.recip, Zero) THEN Zero
    ELSE Mul(self.time_, self.recip)

\* calculate normalized t
normalizedT(self) ==
    IF StrictEq(self.recip, Zero) THEN Zero
    ELSE Mul(Sub(self.time_, self.left), self.recip)

evaluateLinear(self, t) == lerp(self.p0, self.p1, t)

\* evaluateSmoothstep with the remap t * (3 - 2 * t)
evaluateSmoothstep_oneFactor(self, t) ==
    lerp(self.p0, self.p1, Mul(t, Sub(Whole(3), Mul(Whole(2), t))))

evaluateSmoothstep(self, t) ==
    lerp(self.p0, self.p1, Mul(Mul(t, t), Sub(Whole(3), Mul(Whole(2), t))))

\* the call this._evaluateHermite2(p0, p1, m0, m1, t)
evaluateCurve(self, t) ==
    IF "_evaluateHermite2" \in PrototypeMethods
    THEN Returned(_evaluateHermite(self.p0, self.p1, self.m0, self.m1, t))
    ELSE TypeError

evaluate(self, c) ==
    IF c.type = "CURVE_STEP" THEN Returned(self.p0)
    ELSE LET t == normalizedT(self)
         IN  IF c.type = "CURVE_LINEAR" THEN Returned(evaluateLinear(self, t))
             ELSE IF c.type = "CURVE_SMOOTHSTEP"
                  THEN Returned(evaluateSmoothstep(self, t))
             ELSE evaluateCurve(self, t)

\* advance that re-seeks when the new time is at or beyond right
advance_atRight(self, c, amount) ==
    LET s == [self EXCEPT !.time_ = Add(self.time_, amount)]
    IN  IF Ge(amount, Zero)
        THEN IF Ge(s.time_, s.right) THEN reset(s, c, s.time_) ELSE s
        ELSE IF Lt(s.time_, s.left) THEN reset(s, c, s.time_) ELSE s

advance(self, c, amount) ==
    LET s == [self EXCEPT !.time_ = Add(self.time_, amount)]
    IN  IF Ge(amount, Zero)
        THEN IF Gt(s.time_, s.right) THEN reset(s, c, s.time_) ELSE s
        ELSE IF Lt(s.time_, s.left) THEN reset(s, c, s.time_) ELSE s

\* valueSeek with the test time > this.right
valueSeek_beyondRight(self, c, time) ==
    IF Lt(time, self.left) \/ Gt(time, self.right)
    THEN reset(self, c, time)
    ELSE [self EXCEPT !.time_ = time]

\* valueSeek without the test time < this.left
valueSeek_noLeftTest(self, c, time) ==
    IF Ge(time, self.right)
    THEN reset(self, c, time)
    ELSE [self EXCEPT !.time_ = time]

\* the iterator after value(time) has placed it, before it evaluates
valueSeek(self, c, time) ==
    IF Lt(time, self.left) \/ Ge(time, self.right)
    THEN reset(self, c, time)
    ELSE [self EXCEPT !.time_ = time]

---------------------------------------------------------------------------
(* Inputs *)

\* the times and the values the keys are drawn from: unevenly spaced times,
\* so that spans of width 1, 2 and 3 occur
KeyTimes == {0, 1, 3}
KeyValues == {0, 1}

\* keys sorted ascending by time; key times may coincide
IsSorted(ts) == \A i \in 1..(Len(ts) - 1) : ts[i] <= ts[i + 1]

KeyLists ==
    UNION {{[i \in 1..len |-> <<Whole(ts[i]), Whole(vs[i])>>] :
                ts \in {s \in [1..len -> KeyTimes] : IsSorted(s)},
                vs \in [1..len -> KeyValues]} : len \in 0..MaxKeys}

\* the tensions a cardinal curve is given; a curve of another type keeps the
\* tension 0.5
Tensions == {Half, One}

Curves ==
    {[keys |-> ks, type |-> ty, tension |-> te] :
        ks \in KeyLists,
        ty \in {"CURVE_CARDINAL", "CURVE_CARDINAL_STABLE"},
        te \in Tensions}
    \cup
    {[keys |-> ks, type |-> ty, tension |-> Half] :
        ks \in KeyLists,
        ty \in CURVE_TYPES \ {"CURVE_CARDINAL", "CURVE_CARDINAL_STABLE"}}

\* the times an iterator is constructed at, reset to or asked the value of:
\* from one unit before the first key time to one unit after the last
QueryTimes == {Whole(t) : t \in -1..4}

Amounts == {Whole(a) : a \in -MaxStep..MaxStep}

\* the time argument of the constructor: a number, or left out
StartTimes == {Returned(t) : t \in QueryTimes} \cup {Undefined}

\* advance is kept within the times of the model
InRange(time) == time \in QueryTimes

---------------------------------------------------------------------------
(* The state machine: one iterator `it` on `curve`; `lastCall` is the last *)
(* call made on it and `result` what that call returned.  `it2` and        *)
(* `result2` are a second iterator on the same curve.                      *)

Init ==
    /\ curve \in Curves
    /\ \E time \in StartTimes : it = CurveIterator(curve, time)
    /\ lastCall = "new"
    /\ result = Undefined
    /\ it2 = CurveIterator(curve, Undefined)
    /\ result2 = Undefined

\* Reset with the span cache kept in one place for all the iterators of
\* a curve instead of in the fields of this
Reset_sharedCache(time) ==
    /\ it' = reset(it, curve, time)
    /\ lastCall' = "reset"
    /\ result' = Undefined
    /\ it2' = [it' EXCEPT !.time_ = it2.time_]
    /\ UNCHANGED <<curve, result2>>

Reset(time) ==
    /\ it' = reset(it, curve, time)
    /\ lastCall' = "reset"
    /\ result' = Undefined
    /\ UNCHANGED <<curve, it2, result2>>

Advance(amount) ==
    /\ InRange(Add(it.time_, amount))
    /\ it' = advance(it, curve, amount)
    /\ lastCall' = "advance"
    /\ result' = Undefined
    /\ UNCHANGED <<curve, it2, result2>>

Value(time) ==
    /\ it' = valueSeek(it, curve, time)
    /\ lastCall' = "value"
    /\ result' = evaluate(it', curve)
    /\ UNCHANGED <<curve, it2, result2>>

Evaluate ==
    /\ lastCall' = "evaluate"
    /\ result' = evaluate(it, curve)
    /\ UNCHANGED <<curve, it, it2, result2>>

Time ==
    /\ lastCall' = "time"
    /\ result' = Returned(it.time_)
    /\ UNCHANGED <<curve, it, it2, result2>>

Next ==
    \/ \E time \in QueryTimes : Reset(time)
    \/ \E amount \in Amounts : Advance(amount)
    \/ \E time \in QueryTimes : Value(time)
    \/ Evaluate
    \/ Time

Spec == Init /\ [][Next]_vars

---------------------------------------------------------------------------
(* Two iterators on one curve, started at the same time: `it` is driven by *)
(* advance() and read with evaluate(), `it2` is driven by value() at the   *)
(* same cumulative times.                                                  *)

InitLockstep ==
    /\ curve \in Curves
    /\ \E time \in StartTimes :
          /\ it = CurveIterator(curve, time)
          /\ it2 = CurveIterator(curve, time)
    /\ lastCall = "new"
    /\ result = Undefined
    /\ result2 = Undefined

AdvanceAndValue(amount) ==
    /\ InRange(Add(it.time_, amount))
    /\ it' = advance(it, curve, amount)
    /\ lastCall' = "evaluate"
    /\ result' = evaluate(it', curve)
    /\ it2' = valueSeek(it2, curve, Add(it2.time_, amount))
    /\ result2' = evaluate(it2', curve)
    /\ UNCHANGED curve

NextLockstep == \E amount \in Amounts : AdvanceAndValue(amount)

SpecLockstep == InitLockstep /\ [][NextLockstep]_vars

---------------------------------------------------------------------------
(* Two iterators on one curve, each constructed at a time of its own, and  *)
(* the calls on the two interleaved in every order.  The calls on `it` are *)
(* the actions above; the calls on `it2` follow.  `result` is what the     *)
(* last call returned, on whichever iterator it was made.                  *)

\* the key times are strictly increasing
StrictlyIncreasing(keys) ==
    \A i \in 0..(Len(keys) - 2) : Lt(T(Key(keys, i)), T(Key(keys, i + 1)))

\* the key values rise and fall alternately: 0, 1, 0, ...
Alternating(keys) ==
    \A i \in 0..(Len(keys) - 1) : V(Key(keys, i)) = Whole(i % 2)

\* the curves the two iterators share: key times strictly increasing, key
\* values alternating
SharedCurves ==
    {c \in Curves : StrictlyIncreasing(c.keys) /\ Alternating(c.keys)}

InitShared ==
    /\ curve \in SharedCurves
    /\ \E time \in StartTimes : it = CurveIterator(curve, time)
    /\ \E time \in StartTimes : it2 = CurveIterator(curve, time)
    /\ lastCall = "new"
    /\ result = Undefined
    /\ result2 = Undefined

Reset2(time) ==
    /\ it2' = reset(it2, curve, time)
    /\ lastCall' = "reset2"
    /\ result' = Undefined
    /\ UNCHANGED <<curve, it, result2>>

Advance2(amount) ==
    /\ InRange(Add(it2.time_, amount))
    /\ it2' = advance(it2, curve, amount)
    /\ lastCall' = "advance2"
    /\ result' = Undefined
    /\ UNCHANGED <<curve, it, result2>>

Value2(time) ==
    /\ it2' = valueSeek(it2, curve, time)
    /\ lastCall' = "value2"
    /\ result' = evaluate(it2', curve)
    /\ UNCHANGED <<curve, it, result2>>

Evaluate2 ==
    /\ lastCall' = "evaluate2"
    /\ result' = evaluate(it2, curve)
    /\ UNCHANGED <<curve, it, it2, result2>>

Time2 ==
    /\ lastCall' = "time2"
    /\ result' = Returned(it2.time_)
    /\ UNCHANGED <<curve, it, it2, result2>>

Next2 ==
    \/ \E time \in QueryTimes : Reset2(time)
    \/ \E amount \in Amounts : Advance2(amount)
    \/ \E time \in QueryTimes : Value2(time)
    \/ Evaluate2
    \/ Time2

NextShared == Next \/ Next2

SpecShared == InitShared /\ [][NextShared]_vars

---------------------------------------------------------------------------
(* What the claims speak of *)

\* keys[i], keys[i + 1] is the key pair enclosing time
Encloses(keys, i, time) ==
    /\ Ge(time, T(Key(keys, i)))
    /\ Lt(time, T(Key(keys, i + 1)))

\* the value of the greatest key whose time is <= time, or the first key's
\* value when time is before the first key
StepValueAt(keys, time) ==
    IF Lt(time, T(Key(keys, 0))) THEN V(Key(keys, 0))
    ELSE LET i == CHOOSE i \in 0..(Len(keys) - 1) :
                     /\ Ge(time, T(Key(keys, i)))
                     /\ \A j \in 0..(Len(keys) - 1) :
                           Ge(time, T(Key(keys, j)))
                               => Ge(T(Key(keys, i)), T(Key(keys, j)))
         IN  V(Key(keys, i))

---------------------------------------------------------------------------
(* C1: fast-path/slow-path equivalence.  After every advance(amount), what *)
(* evaluate() returns on the advanced iterator equals what value() returns *)
(* at the same cumulative time on an iterator driven by value() alone,     *)
(* also when the cumulative time lands exactly on a key time.  Stated for   *)
(* the curves whose key times are strictly increasing.                     *)
C1_AdvanceMatchesValue ==
    StrictlyIncreasing(curve.keys) => result = result2

(* C2: no operation surfaces an error.  Whatever the curve and the time,   *)
(* no call ends in a thrown error.                                         *)
C2_NoCallThrows == result.tag # "TypeError"

(* C3: on a Step curve with one or more keys at strictly increasing times, *)
(* evaluate() returns the value of the greatest key whose time is <= the   *)
(* iterator's time, or the first key's value before the first key.         *)
C3_StepHoldsGreatestKey ==
    (/\ curve.type = "CURVE_STEP"
     /\ Len(curve.keys) >= 1
     /\ StrictlyIncreasing(curve.keys)
     /\ lastCall = "evaluate")
        => result = Returned(StepValueAt(curve.keys, it.time_))

(* C4: on a CatmullRom, Cardinal or CardinalStable curve with two or more  *)
(* keys, value(k.time) returns the value of the keyframe k, for every      *)
(* keyframe k.                                                             *)
C4_HermitePassesThroughKeys ==
    (/\ _isHermite(curve)
     /\ Len(curve.keys) >= 2
     /\ StrictlyIncreasing(curve.keys)
     /\ lastCall = "value")
        => \A i \in 0..(Len(curve.keys) - 1) :
              it.time_ = T(Key(curve.keys, i))
                  => result = Returned(V(Key(curve.keys, i)))

(* C5: on a curve with zero keys evaluate() returns 0, at every time, for  *)
(* every interpolation type, after any sequence of calls.                  *)
C5_EmptyCurveEvaluatesToZero ==
    (Len(curve.keys) = 0 /\ lastCall = "evaluate")
        => result = Returned(Zero)

(* C6: in every reachable state the cached fields are what reset(current   *)
(* time) computes, and the current time lies in the cached span            *)
(* [left, right).                                                          *)
C6_CacheIsFunctionOfTime ==
    /\ it = reset(it, curve, it.time_)
    /\ Ge(it.time_, it.left)
    /\ Lt(it.time_, it.right)

\* the curve of the examples, keys [(0,0),(10,10)], with the given type
ExampleCurve(type) ==
    [keys |-> <<<<Whole(0), Whole(0)>>, <<Whole(10), Whole(10)>>>>,
     type |-> type, tension |-> Half]

\* what value(time) returns on a new iterator on the curve c
FirstValue(c, time) ==
    evaluate(valueSeek(CurveIterator(c, Undefined), c, time), c)

\* p0 + (p1 - p0) * (time - left) / (right - left) for the key pair
\* keys[i], keys[i + 1]
LinearBetween(keys, i, time) ==
    LET left == T(Key(keys, i))
        right == T(Key(keys, i + 1))
        p0 == V(Key(keys, i))
        p1 == V(Key(keys, i + 1))
    IN  Add(p0, Div(Mul(Sub(p1, p0), Sub(time, left)), Sub(right, left)))

\* with keys [(0,0),(10,10)]: value(5) = 5, value(-5) = 0, value(15) = 10
LinearExample ==
    /\ FirstValue(ExampleCurve("CURVE_LINEAR"), Whole(5)) = Returned(Whole(5))
    /\ FirstValue(ExampleCurve("CURVE_LINEAR"), Whole(-5)) = Returned(Zero)
    /\ FirstValue(ExampleCurve("CURVE_LINEAR"), Whole(15)) = Returned(Whole(10))

(* C7: on a Linear curve with one or more keys value(t) returns the first  *)
(* key's value when t is before the first key's time, the last key's value *)
(* when t is at or after the last key's time, and otherwise                *)
(* p0 + (p1 - p0) * (t - left) / (right - left) for the enclosing key      *)
(* pair; with keys [(0,0),(10,10)]: value(5) = 5, value(-5) = 0,           *)
(* value(15) = 10.                                                         *)
C7_LinearValue ==
    /\ (/\ curve.type = "CURVE_LINEAR"
        /\ Len(curve.keys) >= 1
        /\ lastCall = "value")
          => LET keys == curve.keys
                 len == Len(keys)
             IN  /\ Lt(it.time_, T(Key(keys, 0)))
                       => result = Returned(V(Key(keys, 0)))
                 /\ Ge(it.time_, T(Key(keys, len - 1)))
                       => result = Returned(V(Key(keys, len - 1)))
                 /\ (/\ Ge(it.time_, T(Key(keys, 0)))
                     /\ Lt(it.time_, T(Key(keys, len - 1))))
                       => \E i \in 0..(len - 2) : Encloses(keys, i, it.time_)
                 /\ \A i \in 0..(len - 2) :
                       Encloses(keys, i, it.time_)
                           => result = Returned(LinearBetween(keys, i, it.time_))
    /\ LinearExample

\* C7's case: value() has returned a value strictly between the values of
\* the enclosing key pair of a Linear curve
C7_Witness ==
    /\ curve.type = "CURVE_LINEAR"
    /\ lastCall = "value"
    /\ \E i \in 0..(Len(curve.keys) - 2) :
          /\ Encloses(curve.keys, i, it.time_)
          /\ result.tag = "number"
          /\ Lt(V(Key(curve.keys, i)), result.num)
          /\ Lt(result.num, V(Key(curve.keys, i + 1)))

\* what value(time) returns on the Linear curve with the keys of c
LinearValue(c, time) ==
    FirstValue([c EXCEPT !.type = "CURVE_LINEAR"], time).num

\* time is the midpoint of the span of keys[i], keys[i + 1]
AtMidpoint(keys, i, time) ==
    Mul(Whole(2), Sub(time, T(Key(keys, i))))
        = Sub(T(Key(keys, i + 1)), T(Key(keys, i)))

\* time is strictly inside the first half of the span of keys[i], keys[i + 1]
InFirstHalf(keys, i, time) ==
    /\ Gt(time, T(Key(keys, i)))
    /\ Lt(Mul(Whole(2), Sub(time, T(Key(keys, i)))),
          Sub(T(Key(keys, i + 1)), T(Key(keys, i))))

\* with keys [(0,0),(10,10)]: value(5) = 5, and value(2.5) is less than the
\* Linear value 2.5
SmoothstepExample ==
    /\ FirstValue(ExampleCurve("CURVE_SMOOTHSTEP"), Whole(5)) = Returned(Whole(5))
    /\ FirstValue(ExampleCurve("CURVE_SMOOTHSTEP"), Num(5, 2)).tag = "number"
    /\ Lt(FirstValue(ExampleCurve("CURVE_SMOOTHSTEP"), Num(5, 2)).num, Num(5, 2))
    /\ LinearValue(ExampleCurve("CURVE_SMOOTHSTEP"), Num(5, 2)) = Num(5, 2)

(* C8: on a Smoothstep curve value() at the midpoint of a span returns the *)
(* midpoint of the span's endpoint values, and at every time strictly      *)
(* inside the first half of a span with p0 < p1 it returns strictly less   *)
(* than the Linear value at that time; with keys [(0,0),(10,10)]:          *)
(* value(5) = 5 and value(2.5) < 2.5.                                      *)
C8_SmoothstepValue ==
    /\ (curve.type = "CURVE_SMOOTHSTEP" /\ lastCall = "value")
          => \A i \in 0..(Len(curve.keys) - 2) :
                Encloses(curve.keys, i, it.time_)
                    => LET p0 == V(Key(curve.keys, i))
                           p1 == V(Key(curve.keys, i + 1))
                       IN  /\ AtMidpoint(curve.keys, i, it.time_)
                                 => result = Returned(Mul(Half, Add(p0, p1)))
                           /\ (InFirstHalf(curve.keys, i, it.time_) /\ Lt(p0, p1))
                                 => /\ result.tag = "number"
                                    /\ Lt(result.num, LinearValue(curve, it.time_))
    /\ SmoothstepExample

\* C8's two cases: value() has returned at the midpoint of a span with
\* different endpoint values, or strictly inside the first half of a rising
\* span
C8_Witness ==
    /\ curve.type = "CURVE_SMOOTHSTEP"
    /\ lastCall = "value"
    /\ result.tag = "number"
    /\ \E i \in 0..(Len(curve.keys) - 2) :
          /\ Encloses(curve.keys, i, it.time_)
          /\ InFirstHalf(curve.keys, i, it.time_)
          /\ Lt(V(Key(curve.keys, i)), V(Key(curve.keys, i + 1)))
          /\ Lt(V(Key(curve.keys, i)), result.num)

\* the second case of C8: value() has returned at the midpoint of a span
C8_WitnessMidpoint ==
    /\ curve.type = "CURVE_SMOOTHSTEP"
    /\ lastCall = "value"
    /\ \E i \in 0..(Len(curve.keys) - 2) :
          /\ Encloses(curve.keys, i, it.time_)
          /\ AtMidpoint(curve.keys, i, it.time_)
          /\ V(Key(curve.keys, i)) # V(Key(curve.keys, i + 1))
          /\ result.num = Half

(* C9: reset(t) is independent of prior state and idempotent.  Whatever    *)
(* calls came before it, the state reset(t) leaves (time, left, right,     *)
(* recip, p0, p1, m0, m1) is the state it leaves on the fields of a new    *)
(* iterator, a second reset(t) leaves the same state, and evaluate()       *)
(* returns the same.                                                       *)
C9_ResetIndependentOfHistory ==
    lastCall = "reset"
        => /\ it = reset(newFields(Undefined), curve, it.time_)
           /\ reset(it, curve, it.time_) = it
           /\ evaluate(reset(it, curve, it.time_), curve) = evaluate(it, curve)

\* C9's case: reset(t) has placed the iterator at or beyond the last key of
\* a Hermite curve, where the tangents are 0, and the curve has a span whose
\* tangent m0 is not 0
C9_Witness ==
    /\ lastCall = "reset"
    /\ _isHermite(curve)
    /\ Len(curve.keys) >= 2
    /\ it.m0 = Zero
    /\ it.m1 = Zero
    /\ it.right = Infinity
    /\ \E time \in QueryTimes : reset(it, curve, time).m0 # Zero

(* C10: evaluate() never returns NaN or +/-Infinity: for every curve,      *)
(* coincident key times, single-key and empty curves included, every type  *)
(* and every time reached, what evaluate() and value() return is a finite  *)
(* number.                                                                 *)
C10_EvaluateIsFinite ==
    lastCall \in {"evaluate", "value"}
        => result.tag = "number" /\ isFinite(result.num)

---------------------------------------------------------------------------
\* time() is callable in every state and assigns no field, so the states it
\* leaves hold every reachable pair of curve and iterator fields; what a
\* call would do from every reachable iterator is stated of these states
AfterTime == lastCall = "time"

(* C11: immediately after reset(t), on a curve with sorted keys and for a  *)
(* finite t, the iterator's time is t and left <= t < right, where left is *)
(* -Infinity when t is before the first key and right is +Infinity when t  *)
(* is at or after the last key or the curve is empty.  Stated of the reset *)
(* of every reachable iterator to every time.                              *)
C11_ResetEnclosesTime ==
    AfterTime =>
        \A t \in QueryTimes :
            LET s == reset(it, curve, t)
                keys == curve.keys
                len == Len(keys)
            IN  /\ s.time_ = t
                /\ Ge(t, s.left)
                /\ Lt(t, s.right)
                /\ (len > 0 /\ Lt(t, T(Key(keys, 0)))) => s.left = NegInfinity
                /\ (len = 0 \/ Ge(t, T(Key(keys, len - 1))))
                       => s.right = Infinity
                /\ len = 0 => s.left = NegInfinity

\* C11's case: reset(t) has placed the iterator on a key time that is
\* neither the first nor the last of the curve: the span starts at t
C11_Witness ==
    /\ lastCall = "reset"
    /\ Len(curve.keys) = 3
    /\ it.time_ = T(Key(curve.keys, 1))
    /\ it.left = it.time_
    /\ isFinite(it.right)
    /\ Lt(T(Key(curve.keys, 0)), it.time_)

(* C12: boundary clamping.  After reset(t) on a curve with one or more     *)
(* keys, of every type, the Hermite family included: when t is before the  *)
(* first key, left is -Infinity, right the first key's time, recip 0, p0   *)
(* and p1 the first key's value and m0 = m1 = 0; when t is at or after the *)
(* last key, left is the last key's time, right +Infinity, recip 0, p0 and *)
(* p1 the last key's value and m0 = m1 = 0.                                *)
C12_ResetClampsAtBoundaries ==
    (lastCall = "reset" /\ Len(curve.keys) >= 1)
        => LET first == Key(curve.keys, 0)
               last == Key(curve.keys, Len(curve.keys) - 1)
           IN  /\ Lt(it.time_, T(first))
                      => /\ it.left = NegInfinity
                         /\ it.right = T(first)
                         /\ it.recip = Zero
                         /\ it.p0 = V(first) /\ it.p1 = V(first)
                         /\ it.m0 = Zero /\ it.m1 = Zero
               /\ Ge(it.time_, T(last))
                      => /\ it.left = T(last)
                         /\ it.right = Infinity
                         /\ it.recip = Zero
                         /\ it.p0 = V(last) /\ it.p1 = V(last)
                         /\ it.m0 = Zero /\ it.m1 = Zero

\* C12's case: reset(t) has placed the iterator before the first key of a
\* Hermite curve that has a span with non-zero recip and tangent
C12_Witness ==
    /\ lastCall = "reset"
    /\ _isHermite(curve)
    /\ Len(curve.keys) >= 2
    /\ Lt(it.time_, T(Key(curve.keys, 0)))
    /\ it.left = NegInfinity
    /\ \E time \in QueryTimes :
           /\ reset(it, curve, time).recip # Zero
           /\ reset(it, curve, time).m1 # Zero

\* i is the smallest index whose next key lies after time
SmallestIndexAfter(keys, i, time) ==
    /\ Gt(T(Key(keys, i + 1)), time)
    /\ \A j \in 0..(i - 1) : ~Gt(T(Key(keys, j + 1)), time)

(* C13: interior span selection.  After reset(t) with first key time <= t  *)
(* < last key time, the span is that of the smallest index i with          *)
(* keys[i+1].time > t: left = keys[i].time, right = keys[i+1].time, p0 =   *)
(* keys[i].value, p1 = keys[i+1].value.  The span has right > left, also   *)
(* when key times coincide, so 1 / (right - left) is finite and positive   *)
(* and is the recip stored: the zero-width guard is not the value used.    *)
C13_InteriorSpanSelection ==
    (/\ lastCall = "reset"
     /\ Len(curve.keys) >= 1
     /\ Ge(it.time_, T(Key(curve.keys, 0)))
     /\ Lt(it.time_, T(Key(curve.keys, Len(curve.keys) - 1))))
        => /\ \E i \in 0..(Len(curve.keys) - 2) :
                  SmallestIndexAfter(curve.keys, i, it.time_)
           /\ LET i == CHOOSE i \in 0..(Len(curve.keys) - 2) :
                           SmallestIndexAfter(curve.keys, i, it.time_)
                   diff == Div(One, Sub(it.right, it.left))
               IN  /\ it.left = T(Key(curve.keys, i))
                   /\ it.right = T(Key(curve.keys, i + 1))
                   /\ it.p0 = V(Key(curve.keys, i))
                   /\ it.p1 = V(Key(curve.keys, i + 1))
                   /\ Gt(it.right, it.left)
                   /\ isFinite(diff)
                   /\ it.recip = diff
                   /\ Gt(it.recip, Zero)

\* C13's case: reset(t) has placed the iterator on two coincident key
\* times, and the span selected is the one that starts at the second
C13_Witness ==
    /\ lastCall = "reset"
    /\ Len(curve.keys) = 3
    /\ T(Key(curve.keys, 0)) = T(Key(curve.keys, 1))
    /\ it.time_ = T(Key(curve.keys, 1))
    /\ it.p0 = V(Key(curve.keys, 1))
    /\ V(Key(curve.keys, 0)) # V(Key(curve.keys, 1))
    /\ it.right = T(Key(curve.keys, 2))
    /\ it.recip # Zero

(* C14: advance(amount) sets the time to time + amount and performs a full *)
(* reset(new time) exactly when amount >= 0 and the new time > right, or   *)
(* amount < 0 and the new time < left; otherwise it changes the time and   *)
(* no other field.  Stated of advance by every amount from every reachable *)
(* iterator state.                                                         *)
C14_AdvanceFrame ==
    AfterTime =>
        \A amount \in Amounts :
            LET newTime == Add(it.time_, amount)
                s == advance(it, curve, amount)
                reseeks == \/ Ge(amount, Zero) /\ Gt(newTime, it.right)
                           \/ Lt(amount, Zero) /\ Lt(newTime, it.left)
            IN  InRange(newTime)
                    => /\ s.time_ = newTime
                       /\ reseeks => s = reset(it, curve, newTime)
                       /\ ~reseeks => s = [it EXCEPT !.time_ = newTime]

\* C14's case: advance has moved the time forward onto right, the end of
\* the cached span, and the span is still the one cached before
C14_Witness ==
    /\ lastCall = "advance"
    /\ it.time_ = it.right
    /\ Len(curve.keys) >= 2
    /\ it.p0 # it.p1
    /\ reset(it, curve, it.time_) # it

(* C15: value(t) performs a full reset(t) exactly when t < left or         *)
(* t >= right of the cached span; when left <= t < right it sets the time  *)
(* and no other field; in both cases what it returns is what evaluate()    *)
(* returns in the state it leaves.  Stated of value at every time from     *)
(* every reachable iterator state, and of every call of value made.        *)
C15_ValueFrame ==
    /\ AfterTime =>
           \A t \in QueryTimes :
               LET s == valueSeek(it, curve, t)
                   outside == Lt(t, it.left) \/ Ge(t, it.right)
               IN  /\ outside => s = reset(it, curve, t)
                   /\ ~outside => /\ Ge(t, it.left) /\ Lt(t, it.right)
                                   /\ s = [it EXCEPT !.time_ = t]
    /\ lastCall = "value" => result = evaluate(it, curve)

\* C15's case: value(t) has returned a number with t inside a span whose
\* ends are both key times, while an earlier key time lies before the span
C15_Witness ==
    /\ lastCall = "value"
    /\ result.tag = "number"
    /\ isFinite(it.left)
    /\ isFinite(it.right)
    /\ Gt(it.time_, it.left)
    /\ Lt(T(Key(curve.keys, 0)), it.left)
    /\ it.p0 # it.p1

(* C16: isolation.  No call on an iterator changes the curve (its keys,    *)
(* type or tension), and with two iterators on one curve a call on one     *)
(* leaves every field of the other as it was, whatever the interleaving    *)
(* of the calls on the two.                                                *)
C16_Isolation ==
    [][/\ curve' = curve
       /\ lastCall' \in {"reset", "advance", "value", "evaluate", "time"}
              => it2' = it2
       /\ lastCall' \in {"reset2", "advance2", "value2", "evaluate2", "time2"}
              => it' = it]_vars

\* C16's case: calls on both iterators have left them on different spans
\* of the one curve, with different cached values, the last call being a
\* reset of the first
C16_Witness ==
    /\ lastCall = "reset"
    /\ isFinite(it.left) /\ isFinite(it.right)
    /\ isFinite(it2.left) /\ isFinite(it2.right)
    /\ it.left # it2.left
    /\ it.p0 # it2.p0
    /\ it.time_ # it2.time_

(* C17: in every state reached by reset, advance and value calls on a      *)
(* curve with sorted keys, recip = 0 implies p0 = p1 and m0 = m1 = 0: the  *)
(* spans evaluated with t forced to 0 are flat.                            *)
C17_ZeroRecipIsFlat ==
    StrictEq(it.recip, Zero)
        => /\ it.p0 = it.p1
           /\ it.m0 = Zero
           /\ it.m1 = Zero

\* C17's case: calls have left the iterator with recip 0 on a Hermite
\* curve that has coincident key times with different values and a span
\* with non-zero tangents
C17_Witness ==
    /\ lastCall \in {"reset", "advance", "value"}
    /\ it.recip = Zero
    /\ _isHermite(curve)
    /\ \E i \in 0..(Len(curve.keys) - 2) :
           /\ T(Key(curve.keys, i)) = T(Key(curve.keys, i + 1))
           /\ V(Key(curve.keys, i)) # V(Key(curve.keys, i + 1))
    /\ \E time \in QueryTimes :
           /\ reset(it, curve, time).m0 # Zero
           /\ reset(it, curve, time).m1 # Zero

(* C18: after value(t), from whatever reachable state it was called (a     *)
(* state left by advance included), the whole iterator state is the state  *)
(* reset(t) produces, and what value(t) returned is what evaluate()        *)
(* returns on an iterator newly constructed at t: it does not depend on    *)
(* the calls made before.                                                  *)
C18_ValueIndependentOfHistory ==
    lastCall = "value"
        => LET fresh == CurveIterator(curve, Returned(it.time_))
           IN  /\ it = reset(newFields(Undefined), curve, it.time_)
               /\ it = fresh
               /\ result = evaluate(fresh, curve)

\* C18's case: value(t) has returned a number with t on a key time that
\* starts a span between two keys of different values
C18_Witness ==
    /\ lastCall = "value"
    /\ result.tag = "number"
    /\ it.time_ = it.left
    /\ isFinite(it.right)
    /\ Len(curve.keys) = 3
    /\ it.left = T(Key(curve.keys, 1))
    /\ it.p0 # it.p1

(* C19: in every state reached with finite arguments left <= time <=       *)
(* right; and time = right, which needs right finite, comes about only by  *)
(* an advance with amount >= 0 that lands exactly on the right of the      *)
(* cached span: never by the constructor, a reset or a value.              *)
C19_TimeWithinSpan ==
    /\ [](/\ Ge(it.time_, it.left)
          /\ Ge(it.right, it.time_)
          /\ lastCall \in {"new", "reset", "value"} => Lt(it.time_, it.right))
    /\ [][(it'.time_ = it'.right /\ it' # it)
              => /\ lastCall' = "advance"
                 /\ it'.right = it.right
                 /\ Ge(Sub(it'.time_, it.time_), Zero)
                 /\ it' = [it EXCEPT !.time_ = it.right]]_vars

\* C19's case: advance has carried the time forward onto the right of the
\* cached span
C19_Witness ==
    /\ lastCall = "advance"
    /\ it.time_ = it.right
    /\ isFinite(it.left)
    /\ Lt(it.left, it.right)

---------------------------------------------------------------------------
(* The key accesses of reset and _calcTangents, as the sets of the indices *)
(* i of the keys[i] they read                                              *)

\* reset(time) takes its last branch, the one with the linear search
scanEntered(c, time) ==
    /\ Len(c.keys) # 0
    /\ ~Lt(time, T(Key(c.keys, 0)))
    /\ ~Ge(time, T(Key(c.keys, Len(c.keys) - 1)))

\* the indices the loop condition this.time_ >= keys[index + 1][0] reads,
\* from index on; a read outside the list ends the loop
RECURSIVE scanReads(_, _, _)
scanReads(keys, time, index) ==
    {index + 1} \cup
        IF index + 1 \in 0..(Len(keys) - 1) /\ Ge(time, T(Key(keys, index + 1)))
        THEN scanReads(keys, time, index + 1)
        ELSE {}

\* tangentReads with the test index == keys.length - 1
tangentReads_lastIndex(keys, index) ==
    {index, index + 1}
        \cup (IF index = 0 THEN {0, 1} ELSE {index - 1})
        \cup (IF index = Len(keys) - 1 THEN {index + 1, index} ELSE {index + 2})

\* the indices _calcTangents(keys, index) reads: b, c, and a and d or the
\* keys they are extrapolated from
tangentReads(keys, index) ==
    {index, index + 1}
        \cup (IF index = 0 THEN {0, 1} ELSE {index - 1})
        \cup (IF index = Len(keys) - 2 THEN {index + 1, index} ELSE {index + 2})

(* C20: the linear scan of reset ends and every key access is in bounds.   *)
(* The scan is entered only on a curve with two or more keys and with      *)
(* keys[0].time <= time < keys[len-1].time; every key the loop condition   *)
(* reads exists; the index it stops at satisfies 0 <= index <= len - 2;    *)
(* and _calcTangents reads keys[index - 1] only when index > 0 and         *)
(* keys[index + 2] only when index < len - 2.                              *)
C20_ScanInBounds ==
    (lastCall = "reset" /\ scanEntered(curve, it.time_))
        => LET keys == curve.keys
               len == Len(keys)
               InBounds == 0..(len - 1)
           IN  /\ len >= 2
               /\ Ge(it.time_, T(Key(keys, 0)))
               /\ Lt(it.time_, T(Key(keys, len - 1)))
               /\ scanReads(keys, it.time_, 0) \subseteq InBounds
               /\ LET index == searchIndex(keys, it.time_, 0)
                       reads == tangentReads(keys, index)
                   IN  /\ index \in 0..(len - 2)
                       /\ index + 1 \in scanReads(keys, it.time_, 0)
                       /\ it.left = T(Key(keys, index))
                       /\ _isHermite(curve)
                              => /\ reads \subseteq InBounds
                                 /\ (index - 1) \in reads => index > 0
                                 /\ (index + 2) \in reads => index < len - 2

\* C20's case: reset(t) has scanned a Hermite curve of three keys up to
\* its last span: index = 1 = len - 2, keys[0] is read as a, d is
\* extrapolated
C20_Witness ==
    /\ lastCall = "reset"
    /\ _isHermite(curve)
    /\ Len(curve.keys) = 3
    /\ scanEntered(curve, it.time_)
    /\ searchIndex(curve.keys, it.time_, 0) = 1
    /\ scanReads(curve.keys, it.time_, 0) = {1, 2}
    /\ tangentReads(curve.keys, 1) = {0, 1, 2}

====
